---- MODULE Spec2Model ----
(***************************************************************************)
(* The badminton scheduler of jchowdhary/mult-agentic-application: the two  *)
(* party stores (Mr. Bean's and Mr. Joy's FastAPI services with their       *)
(* in-memory diaries) and the Organizer's LangGraph workflow.               *)
(*                                                                         *)
(* Strings the code compares, sorts, joins or splits are sequences of       *)
(* ASCII codes, so that Python's string order and str.split are computed,   *)
(* not assumed. A date "%Y-%m-%d" is fixed-width and zero-padded; the model *)
(* writes it as the two-digit ordinal of the day, day 0 being yesterday.    *)
(* Each service was started yesterday or today (datetime.now() of its       *)
(* generator), and no midnight passes in a behaviour.                       *)
(***************************************************************************)
EXTENDS Integers, Sequences, FiniteSets, TLC

VARIABLES
    diary,              \* BEAN_DIARY / JOY_DIARY: party -> date string -> day schedule
    resp,               \* the last HTTP response a party store gave
    pc,                 \* the Organizer run's position in the workflow graph
    bean_diary,         \* OrganizerState["bean_diary"]: the diary fetched, {} on failure
    joy_diary,          \* OrganizerState["joy_diary"]
    bean_availability,  \* OrganizerState["bean_availability"]
    joy_availability,   \* OrganizerState["joy_availability"]
    common_slots,       \* OrganizerState["common_slots"]
    selected_slot,      \* OrganizerState["selected_slot"]
    status,             \* OrganizerState["status"]
    messages,           \* OrganizerState["messages"], one tag per appended line
    joy_failed,         \* history: the slots whose query to Joy got no 200 answer
    llm_asked,          \* history: select_best_slot called llm.invoke
    attempted,          \* history: the parties a book_appointment request was issued to
    committed,          \* history: the parties whose store committed the run's booking
    bookings,           \* history: the organizer's view, party -> "booked" | "unknown"
    checked,            \* history: the <<party, slot>> pairs the run queried
    other               \* a second run of the workflow: its position and selected slot

vars == <<diary, resp, pc, bean_diary, joy_diary, bean_availability,
          joy_availability, common_slots, selected_slot, status, messages,
          joy_failed, llm_asked, attempted, committed, bookings, checked, other>>

storeVars == <<diary, resp>>
orgVars == <<pc, bean_diary, joy_diary, bean_availability, joy_availability,
             common_slots, selected_slot, status, messages,
             joy_failed, llm_asked, attempted, committed, bookings, checked, other>>

-----------------------------------------------------------------------------
(* Bounds of the model.                                                      *)

\* Booked appointments the two diaries hold together.
MaxBooked == 1

-----------------------------------------------------------------------------
(* Strings.                                                                  *)

Party == {"Bean", "Joy"}

Range(s) == {s[i] : i \in 1..Len(s)}

Count(s, a) == Cardinality({i \in 1..Len(s) : s[i] = a})

HYPHEN == 45
COLON == 58
UNDERSCORE == 95
ZERO == 48

\* Two-digit, zero-padded decimal: what %d, %H and %M of strftime give.
Str2(n) == <<ZERO + (n \div 10), ZERO + (n % 10)>>

\* The literal "HH:MM".
T(h, m) == Str2(h) \o <<COLON>> \o Str2(m)

\* Python's < on str: lexicographic by code point.
RECURSIVE StrLess(_, _)
StrLess(a, b) ==
    IF b = <<>> THEN FALSE
    ELSE IF a = <<>> THEN TRUE
    ELSE IF Head(a) # Head(b) THEN Head(a) < Head(b)
    ELSE StrLess(Tail(a), Tail(b))

\* str.split(sep) for a one-character separator: the list of the pieces.
RECURSIVE Split(_, _)
Split(s, sep) ==
    IF \A i \in 1..Len(s) : s[i] # sep THEN <<s>>
    ELSE LET k == CHOOSE i \in 1..Len(s) :
                      s[i] = sep /\ \A j \in 1..(i - 1) : s[j] # sep
         IN  <<SubSeq(s, 1, k - 1)>> \o Split(SubSeq(s, k + 1, Len(s)), sep)

\* int() of a string of decimal digits.
RECURSIVE ParseInt(_)
ParseInt(s) ==
    IF s = <<>> THEN 0
    ELSE 10 * ParseInt(SubSeq(s, 1, Len(s) - 1)) + (s[Len(s)] - ZERO)

\* to_minutes of time_overlaps.
to_minutes(time_str) ==
    LET hm == Split(time_str, COLON)
    IN  ParseInt(hm[1]) * 60 + ParseInt(hm[2])

\* time_overlaps: whether an appointment's "HH:MM-HH:MM" overlaps [start, end).
time_overlaps(apt_time, start, end) ==
    LET se == Split(apt_time, HYPHEN)
        apt_start_min == to_minutes(se[1])
        apt_end_min == to_minutes(se[2])
        target_start_min == to_minutes(start)
        target_end_min == to_minutes(end)
    IN  ~(apt_end_min <= target_start_min \/ apt_start_min >= target_end_min)

-----------------------------------------------------------------------------
(* The diaries.                                                              *)

\* range(10) of the generators.
HorizonDays == 10

\* datetime.now().date() of a generator run at start-up: yesterday or today.
StartDays == {0, 1}

\* datetime.now().date() during a behaviour: today.
Today == CHOOSE n \in StartDays : \A m \in StartDays : m <= n

\* current_date.strftime("%Y-%m-%d")
date_str(current_date) == Str2(current_date)

Apt(h1, m1, h2, m2, activity, type) ==
    [time |-> T(h1, m1) \o <<HYPHEN>> \o T(h2, m2), activity |-> activity, type |-> type]

\* list.insert(i, x), i counted from 0.
Insert(s, i, x) == SubSeq(s, 1, i) \o <<x>> \o SubSeq(s, i + 1, Len(s))

bean_typical ==
    << Apt(8, 0, 9, 0, "Breakfast with Teddy", "flexible"),
       Apt(9, 0, 10, 0, "Morning walk in park", "leisure"),
       Apt(10, 0, 12, 0, "Work at office", "fixed"),
       Apt(12, 0, 13, 0, "Lunch break", "flexible"),
       Apt(13, 0, 14, 0, "Quick errands", "leisure"),
       Apt(16, 0, 17, 0, "Tea time", "flexible"),
       Apt(17, 0, 18, 0, "Hobbies and TV", "leisure"),
       Apt(18, 0, 19, 0, "Dinner preparation", "flexible") >>

bean_appointments(day_offset) ==
    LET a0 == bean_typical
        a1 == IF day_offset % 3 = 0
              THEN Insert(a0, 3, Apt(12, 30, 13, 0, "Lunch with friends", "flexible"))
              ELSE a0
    IN  IF day_offset % 5 = 0
        THEN Insert(a1, 2, Apt(9, 30, 10, 0, "Check emails", "leisure"))
        ELSE a1

joy_typical ==
    << Apt(8, 0, 9, 0, "Morning yoga and meditation", "leisure"),
       Apt(9, 0, 10, 0, "Breakfast", "flexible"),
       Apt(10, 0, 12, 0, "Client meetings", "fixed"),
       Apt(12, 0, 13, 0, "Lunch and rest", "flexible"),
       Apt(13, 0, 15, 0, "Gym workout", "leisure"),
       Apt(15, 0, 16, 0, "Coffee break", "flexible"),
       Apt(16, 0, 18, 0, "Reading and relaxation", "leisure"),
       Apt(18, 0, 19, 0, "Dinner time", "flexible") >>

joy_appointments(day_offset) ==
    LET a0 == joy_typical
        a1 == IF day_offset % 2 = 0
              THEN [a0 EXCEPT ![5] = Apt(13, 0, 15, 0, "Business workshop", "fixed")]
              ELSE a0
    IN  IF day_offset % 5 = 0
        THEN [a1 EXCEPT ![7] = Apt(16, 0, 18, 0, "Family gathering", "fixed")]
        ELSE a1

\* The keys of a diary generated on start_date.
Dates(start_date) == {date_str(start_date + n) : n \in 0..(HorizonDays - 1)}

OffsetOf(start_date, d) ==
    CHOOSE n \in 0..(HorizonDays - 1) : date_str(start_date + n) = d

\* strftime("%A"): the weekday, kept as the day's ordinal modulo 7.
Schedule(current_date, appointments) ==
    [date |-> date_str(current_date), day |-> current_date % 7,
     appointments |-> appointments]

generate_bean_diary(start_date) ==
    [d \in Dates(start_date) |->
        LET day_offset == OffsetOf(start_date, d)
        IN  Schedule(start_date + day_offset, bean_appointments(day_offset))]

generate_joy_diary(start_date) ==
    [d \in Dates(start_date) |->
        LET day_offset == OffsetOf(start_date, d)
        IN  Schedule(start_date + day_offset, joy_appointments(day_offset))]

generate_diary(p, start_date) ==
    IF p = "Bean" THEN generate_bean_diary(start_date)
    ELSE generate_joy_diary(start_date)

-----------------------------------------------------------------------------
(* The party stores: the handlers of bean_agent.py and joy_agent.py.         *)

\* The requests the model makes: TimeSlotQuery(date, start_time, end_time, activity).
\* Dates: yesterday and today (the first day of a diary carries every
\* variation of its generator, the second none; a diary generated today
\* lacks yesterday) and the first day after every horizon.
InputDays == StartDays

MissingDate == date_str(Today + HorizonDays)

InputDates == {date_str(n) : n \in InputDays} \cup {MissingDate}

InputWindows == { <<T(9, 0), T(11, 0)>>, <<T(14, 0), T(16, 0)>> }

Query(d, w) == [date |-> d, start_time |-> w[1], end_time |-> w[2],
                activity |-> "Badminton match"]

Queries == {Query(d, w) : d \in InputDates, w \in InputWindows}

NoQuery == [date |-> <<>>, start_time |-> <<>>, end_time |-> <<>>, activity |-> ""]

\* What the hosted language model's call gives: a JSON verdict, or anything
\* that makes the handler's try block raise.
LLMVerdicts == {"true", "false", "error"}

Response(op, p, code, available, q) ==
    [op |-> op, party |-> p, code |-> code, available |-> available, query |-> q,
     conflicts |-> <<>>]

NoResponse == Response("none", "none", 0, FALSE, NoQuery)

\* list.sort(key=lambda x: x["time"]): stable, by the "time" string.
RECURSIVE InsertByTime(_, _)
InsertByTime(sorted, x) ==
    IF sorted = <<>> THEN <<x>>
    ELSE IF StrLess(x.time, Head(sorted).time) THEN <<x>> \o sorted
    ELSE <<Head(sorted)>> \o InsertByTime(Tail(sorted), x)

RECURSIVE SortByTimeKey(_)
SortByTimeKey(s) ==
    IF s = <<>> THEN <<>>
    ELSE InsertByTime(SortByTimeKey(SubSeq(s, 1, Len(s) - 1)), s[Len(s)])

NotSorted(appointments) == appointments

\* bean_agent.py:246, joy_agent.py:218.
SortAppointments(appointments) == SortByTimeKey(appointments)

new_appointment(q) ==
    [time |-> q.start_time \o <<HYPHEN>> \o q.end_time,
     activity |-> q.activity, type |-> "booked"]

BookedDiary_CreatesDay(dy, q) ==
    IF q.date \notin DOMAIN dy
    THEN [d \in DOMAIN dy \cup {q.date} |->
            IF d = q.date
            THEN [date |-> d, day |-> 0, appointments |-> <<new_appointment(q)>>]
            ELSE dy[d]]
    ELSE [dy EXCEPT ![q.date].appointments =
            SortAppointments(Append(@, new_appointment(q)))]

BookedDiary_Once(dy, q) ==
    IF q.date \notin DOMAIN dy
    THEN dy
    ELSE IF new_appointment(q) \in Range(dy[q.date].appointments)
    THEN dy
    ELSE [dy EXCEPT ![q.date].appointments =
            SortAppointments(Append(@, new_appointment(q)))]


BookedDiary_Replaces(dy, q) ==
    IF q.date \notin DOMAIN dy
    THEN dy
    ELSE [dy EXCEPT ![q.date].appointments =
            SortAppointments(Append(
                SelectSeq(@, LAMBDA a :
                    ~time_overlaps(a.time, q.start_time, q.end_time)),
                new_appointment(q)))]

\* The diary book_appointment leaves: untouched when it raised the 404.
BookedDiary(dy, q) ==
    IF q.date \notin DOMAIN dy
    THEN dy
    ELSE [dy EXCEPT ![q.date].appointments =
            SortAppointments(Append(@, new_appointment(q)))]

\* The appointments of a day that overlap the window of q.
Overlapping(appointments, q) ==
    SelectSeq(appointments, LAMBDA a : time_overlaps(a.time, q.start_time, q.end_time))

\* The "conflicts" the language model's JSON may carry: nothing in the
\* handler computes or checks the list, so the model takes the two answers
\* that matter, an empty list and the appointments that do overlap.
LLMConflicts(dy, q) ==
    IF q.date \in DOMAIN dy
    THEN {<<>>, Overlapping(dy[q.date].appointments, q)}
    ELSE {<<>>}

\* POST /check_availability: 404 for a date outside the diary, else the
\* language model's verdict and conflicts, or available False and no
\* conflicts when the call or the parse of its answer raised.
check_availability_response(p, dy, q, llm, conflicts) ==
    IF q.date \notin DOMAIN dy
    THEN Response("check", p, 404, FALSE, q)
    ELSE IF llm = "error"
    THEN Response("check", p, 200, FALSE, q)
    ELSE [Response("check", p, 200, llm = "true", q) EXCEPT !.conflicts = conflicts]

CheckedDiary_Books(dy, q) ==
    IF q.date \notin DOMAIN dy
    THEN dy
    ELSE [dy EXCEPT ![q.date].appointments = Append(@, new_appointment(q))]

\* The diary check_availability leaves: the handler reads BEAN_DIARY and
\* assigns to nothing in it.
CheckedDiary(dy, q) == dy

\* The <<verdict, conflicts>> a call of the handler can draw from the language
\* model: none is drawn for a date outside the diary, the 404 comes first.
LLMCalls(dy, q) ==
    IF q.date \in DOMAIN dy
    THEN ({"true", "false"} \X LLMConflicts(dy, q)) \cup {<<"error", <<>> >>}
    ELSE {<<"error", <<>> >>}

check_availability(p, q, llm, conflicts) ==
    /\ resp' = check_availability_response(p, diary[p], q, llm, conflicts)
    /\ diary' = [diary EXCEPT ![p] = CheckedDiary(@, q)]

\* GET /diary: the whole diary in the response.
get_full_diary(p) ==
    /\ resp' = Response("diary", p, 200, FALSE, NoQuery)
    /\ UNCHANGED diary

\* Appointments of type "booked" in the diaries (the model bounds them).
RECURSIVE CountBooked(_)
CountBooked(appointments) ==
    IF appointments = <<>> THEN 0
    ELSE (IF Head(appointments).type = "booked" THEN 1 ELSE 0)
         + CountBooked(Tail(appointments))

RECURSIVE SumBooked(_, _)
SumBooked(dy, ds) ==
    IF ds = {} THEN 0
    ELSE LET d == CHOOSE x \in ds : TRUE
         IN  CountBooked(dy[d].appointments) + SumBooked(dy, ds \ {d})

BookedIn(p) == SumBooked(diary[p], DOMAIN diary[p] \cap InputDates)

book_appointment_response(p, dy, q) ==
    IF q.date \notin DOMAIN dy
    THEN Response("book", p, 404, FALSE, q)
    ELSE Response("book", p, 200, FALSE, q)

\* POST /book_appointment.
book_appointment(p, q) ==
    /\ q.date \in DOMAIN diary[p] => BookedIn("Bean") + BookedIn("Joy") < MaxBooked
    /\ diary' = [diary EXCEPT ![p] = BookedDiary(@, q)]
    /\ resp' = book_appointment_response(p, diary[p], q)

reset_diary_Both(p) ==
    IF p = "Bean"
    THEN /\ diary' = [x \in Party |-> generate_diary(x, Today)]
         /\ resp' = Response("reset", p, 200, FALSE, NoQuery)
    ELSE /\ resp' = Response("reset", p, 404, FALSE, NoQuery)
         /\ UNCHANGED diary

reset_diary_Alternating(p) ==
    IF p = "Bean"
    THEN /\ diary' = [diary EXCEPT ![p] =
                         IF @ = generate_diary(p, Today)
                         THEN generate_diary(p, Today - 1)
                         ELSE generate_diary(p, Today)]
         /\ resp' = Response("reset", p, 200, FALSE, NoQuery)
    ELSE /\ resp' = Response("reset", p, 404, FALSE, NoQuery)
         /\ UNCHANGED diary

\* POST /reset_diary: a route of Bean's service only. Joy's service declares
\* no such route, so FastAPI answers 404 and JOY_DIARY stays as it is.
reset_diary(p) ==
    IF p = "Bean"
    THEN /\ diary' = [diary EXCEPT ![p] = generate_diary(p, Today)]
         /\ resp' = Response("reset", p, 200, FALSE, NoQuery)
    ELSE /\ resp' = Response("reset", p, 404, FALSE, NoQuery)
         /\ UNCHANGED diary

-----------------------------------------------------------------------------
(* The Organizer's state.                                                    *)

EmptySlot == [date |-> <<>>, start_time |-> <<>>, end_time |-> <<>>]

\* No second run.
NoRun == [pc |-> "idle", common_slots |-> <<>>, selected_slot |-> EmptySlot,
          committed |-> {}]

OrgInit ==
    /\ pc = "idle"
    /\ bean_diary = <<>>
    /\ joy_diary = <<>>
    /\ bean_availability = <<>>
    /\ joy_availability = <<>>
    /\ common_slots = <<>>
    /\ selected_slot = EmptySlot
    /\ status = "in_progress"
    /\ messages = <<>>
    /\ joy_failed = {}
    /\ llm_asked = FALSE
    /\ attempted = {}
    /\ committed = {}
    /\ bookings = [p \in Party |-> "none"]
    /\ checked = {}
    /\ other = NoRun

StoreInit ==
    /\ \E start \in [Party -> StartDays] :
          diary = [p \in Party |-> generate_diary(p, start[p])]

\* How a request of the Organizer ends: answered, timed out after the store
\* handled it (requests' timeout=...), or never delivered (connection error).
Nets == {"ok", "timeout", "conn"}

Delivered(net) == net \in {"ok", "timeout"}

check_agent_availability_FailOpen(net, r) ==
    IF net = "ok"
    THEN IF r.code = 200 THEN r.available ELSE FALSE
    ELSE TRUE

\* check_agent_availability: the "available" of the dict it returns, given how
\* the request ended and the store's response r.
check_agent_availability(net, r) ==
    IF net = "ok"
    THEN IF r.code = 200 THEN r.available ELSE FALSE
    ELSE FALSE

\* book_agent_appointment: .get('status', 'unknown') of the dict it returns.
book_agent_appointment(net, r) ==
    IF net = "ok" /\ r.code = 200 THEN "booked" ELSE "unknown"

\* An entry of bean_availability / joy_availability; the reason is the
\* language model's text, which nothing reads.
Entry(d, start, end) ==
    [date |-> d, start_time |-> start, end_time |-> end, reason |-> ""]

Slot(d, start, end) == [date |-> d, start_time |-> start, end_time |-> end]

SlotOf(e) == Slot(e.date, e.start_time, e.end_time)


SlotQuery_SwapsTimes(s) ==
    [date |-> s.date, start_time |-> s.end_time, end_time |-> s.start_time,
     activity |-> "Badminton match"]

SlotQuery(s) == [date |-> s.date, start_time |-> s.start_time,
                 end_time |-> s.end_time, activity |-> "Badminton match"]

\* The windows check_bean_availability asks for.
bean_time_windows == << <<T(9, 0), T(11, 0)>>, <<T(13, 0), T(15, 0)>>, <<T(16, 0), T(18, 0)>> >>

\* f"{s['date']}_{s['start_time']}_{s['end_time']}"
SlotKey(s) == s.date \o <<UNDERSCORE>> \o s.start_time \o <<UNDERSCORE>> \o s.end_time

\* parts = slot_key.split("_"); {"date": parts[0], ...}
KeySlot(slot_key) ==
    LET parts == Split(slot_key, UNDERSCORE)
    IN  Slot(parts[1], parts[2], parts[3])

CommonKeys_BeanOnly(bean_av, joy_av) == {SlotKey(e) : e \in Range(bean_av)}

\* bean_slots.intersection(joy_slots)
CommonKeys(bean_av, joy_av) ==
    LET bean_slots == {SlotKey(e) : e \in Range(bean_av)}
        joy_slots == {SlotKey(e) : e \in Range(joy_av)}
    IN  bean_slots \cap joy_slots

\* The orders in which a Python set may be iterated.
RECURSIVE Orders(_)
Orders(S) ==
    IF S = {} THEN {<<>>}
    ELSE UNION {{<<x>> \o o : o \in Orders(S \ {x})} : x \in S}

\* sorted(common_slots, key=lambda x: x["date"]): stable, by the date string.
RECURSIVE InsertByDate(_, _)
InsertByDate(sorted, x) ==
    IF sorted = <<>> THEN <<x>>
    ELSE IF StrLess(x.date, Head(sorted).date) THEN <<x>> \o sorted
    ELSE <<Head(sorted)>> \o InsertByDate(Tail(sorted), x)

RECURSIVE SortByDate(_)
SortByDate(s) ==
    IF s = <<>> THEN <<>>
    ELSE InsertByDate(SortByDate(SubSeq(s, 1, Len(s) - 1)), s[Len(s)])

-----------------------------------------------------------------------------
(* The nodes of the workflow graph from check_joy on.                        *)

Msg(text, n) == <<text, n>>

\* One availability call as the organizer meets it: the transport's outcome
\* and, when the store's answer comes back, the verdict the store's language
\* model gave (the store keeps no trace of a check, so the verdict behind a
\* lost answer is immaterial).
CallOutcomes ==
    {<<"ok", v>> : v \in LLMVerdicts} \cup {<<n, "error">> : n \in Nets \ {"ok"}}

\* The entries of s whose flag is set, in order: the list a loop builds with
\* "if result.get('available', False): ....append(...)".
RECURSIVE Kept(_, _)
Kept(s, flags) ==
    IF s = <<>> THEN <<>>
    ELSE (IF Head(flags) THEN <<Entry(Head(s).date, Head(s).start_time, Head(s).end_time)>>
          ELSE <<>>)
         \o Kept(Tail(s), Tail(flags))

\* check_joy_availability: one query to Joy's store per entry of
\* bean_availability; an entry is kept when the answer says available.
check_joy_availability ==
    /\ pc = "check_joy"
    /\ \E out \in [1..Len(bean_availability) -> CallOutcomes] :
          LET r(i) == check_availability_response(
                          "Joy", diary["Joy"], SlotQuery(bean_availability[i]), out[i][2],
                          <<>>)
              available(i) == check_agent_availability(out[i][1], r(i))
              failed(i) == out[i][1] # "ok" \/ r(i).code # 200
          IN  /\ joy_availability' =
                    Kept(bean_availability,
                         [i \in 1..Len(bean_availability) |-> available(i)])
              /\ joy_failed' = {SlotOf(bean_availability[i]) :
                                   i \in {j \in 1..Len(bean_availability) : failed(j)}}
    /\ messages' = Append(messages, Msg("Mr. Joy available for slots", Len(joy_availability')))
    /\ pc' = "find_common"
    /\ checked' = checked \cup {<<"Joy", SlotOf(e)>> : e \in Range(bean_availability)}
    /\ UNCHANGED <<diary, resp, bean_diary, joy_diary, bean_availability, common_slots,
                   selected_slot, status, llm_asked, attempted, committed, bookings,
                   other>>

\* find_common_slots.
find_common_slots ==
    /\ pc = "find_common"
    /\ \E order \in Orders(CommonKeys(bean_availability, joy_availability)) :
          LET unsorted == [i \in 1..Len(order) |-> KeySlot(order[i])]
          IN  /\ common_slots' = SortByDate(unsorted)
              /\ messages' = Append(messages, Msg("Found common available slots", Len(unsorted)))
              /\ status' = IF unsorted # <<>> THEN "slots_found" ELSE "no_slots"
    /\ pc' = "select_slot"
    /\ UNCHANGED <<diary, resp, bean_diary, joy_diary, bean_availability, joy_availability,
                   selected_slot, joy_failed, llm_asked, attempted, committed, bookings,
                   checked, other>>

\* What llm.invoke and int(response.content.strip()) give: an integer, a
\* ValueError for text that is no integer, or an exception of the call.
LLMAnswers(n) ==
    {[kind |-> "int", index |-> i] : i \in -1..n}
        \cup {[kind |-> "not_int", index |-> 0], [kind |-> "raise", index |-> 0]}


Chosen_Last(slots, answer) ==
    IF answer.kind = "int" /\ 0 <= answer.index /\ answer.index < Len(slots)
    THEN slots[answer.index + 1]
    ELSE slots[Len(slots)]

\* The slot select_best_slot takes from a non-empty common_slots.
Chosen(slots, answer) ==
    IF answer.kind = "int" /\ 0 <= answer.index /\ answer.index < Len(slots)
    THEN slots[answer.index + 1]
    ELSE slots[1]

\* select_best_slot.
select_best_slot ==
    /\ pc = "select_slot"
    /\ IF common_slots = <<>>
       THEN /\ selected_slot' = EmptySlot
            /\ messages' = Append(messages, Msg("No common slots found", 0))
            /\ UNCHANGED llm_asked
       ELSE \E answer \in LLMAnswers(Len(common_slots)) :
               /\ selected_slot' = Chosen(common_slots, answer)
               /\ llm_asked' = TRUE
               /\ messages' = Append(messages,
                     IF answer.kind = "int" /\ 0 <= answer.index
                                            /\ answer.index < Len(common_slots)
                     THEN Msg("Selected slot", answer.index)
                     ELSE Msg("Selected first available slot", 0))
    /\ pc' = "book"
    /\ UNCHANGED <<diary, resp, bean_diary, joy_diary, bean_availability, joy_availability,
                   common_slots, status, joy_failed, attempted, committed, bookings,
                   checked, other>>

HasSlot_Always(slot) == TRUE

\* "if not state['selected_slot']" of book_appointments, negated.
HasSlot(slot) == slot # EmptySlot

CallsJoy_IfBeanBooked(bean_booking) == bean_booking = "booked"

\* Whether book_appointments goes on to Joy after Bean's result: it always
\* does, the second call is unconditional and book_agent_appointment raises
\* nothing.
CallsJoy(bean_booking) == TRUE

\* state["status"] = "booked", whatever the two results.
BookedStatus(bean_booking, joy_booking) == "booked"

\* book_appointments.
book_appointments ==
    /\ pc = "book"
    /\ IF ~HasSlot(selected_slot)
       THEN /\ messages' = Append(messages, Msg("Cannot book - no slot selected", 0))
            /\ UNCHANGED <<diary, status, attempted, committed, bookings>>
       ELSE \E net \in [Party -> Nets] :
               LET q == SlotQuery(selected_slot)
                   r(p) == book_appointment_response(p, diary[p], q)
                   bean_booking == book_agent_appointment(net["Bean"], r("Bean"))
                   calls == {"Bean"} \cup (IF CallsJoy(bean_booking) THEN {"Joy"} ELSE {})
                   joy_booking == IF "Joy" \in calls
                                  THEN book_agent_appointment(net["Joy"], r("Joy"))
                                  ELSE "none"
                   handled == {p \in calls : Delivered(net[p])}
               IN  /\ diary' = [p \in Party |->
                                   IF p \in handled THEN BookedDiary(diary[p], q)
                                   ELSE diary[p]]
                   /\ attempted' = calls
                   /\ committed' = {p \in handled : r(p).code = 200}
                   /\ bookings' = [p \in Party |->
                                      IF p = "Bean" THEN bean_booking ELSE joy_booking]
                   /\ messages' = messages
                         \o << Msg("Booked with Mr. Bean: " \o bean_booking, 0),
                               Msg("Booked with Mr. Joy: " \o joy_booking, 0) >>
                   /\ status' = BookedStatus(bean_booking, joy_booking)
    /\ pc' = "done"
    /\ UNCHANGED <<resp, bean_diary, joy_diary, bean_availability, joy_availability,
                   common_slots, selected_slot, joy_failed, llm_asked, checked, other>>

-----------------------------------------------------------------------------
(* SpecWorkflow: one pass through the nodes check_joy, find_common,          *)
(* select_slot and book in the order of the graph's edges, entered with a    *)
(* bean_availability of the kind check_bean_availability is written to       *)
(* build: entries for some of the first dates of Bean's diary and of its     *)
(* three windows, in the order of its two loops.                             *)

\* Entries check_bean_availability can produce, counted in its loop order.
MaxSlots == 4

RECURSIVE SetToSeq(_)
SetToSeq(S) ==
    IF S = {} THEN <<>>
    ELSE LET x == CHOOSE y \in S : \A z \in S : y = z \/ StrLess(y, z)
         IN  <<x>> \o SetToSeq(S \ {x})

\* dict.keys() of a fetched diary ({} when the fetch failed): the dates in the
\* order of generation.
DiaryKeys(dy) == SetToSeq(DOMAIN dy)

\* The (date, window) pairs in the order of check_bean_availability's loops
\* over the first five dates and the three windows.
Candidates(keys) ==
    LET days == SubSeq(keys, 1, IF Len(keys) < 5 THEN Len(keys) ELSE 5)
    IN  [k \in 1..(Len(days) * Len(bean_time_windows)) |->
            LET d == days[((k - 1) \div Len(bean_time_windows)) + 1]
                w == bean_time_windows[((k - 1) % Len(bean_time_windows)) + 1]
            IN  Entry(d, w[1], w[2])]

RECURSIVE SubSeqs(_)
SubSeqs(s) ==
    IF s = <<>> THEN {<<>>}
    ELSE LET rest == SubSeqs(Tail(s))
         IN  rest \cup {<<Head(s)>> \o t : t \in rest}

WorkflowInit ==
    /\ StoreInit
    /\ resp = NoResponse
    /\ pc = "check_joy"
    /\ bean_diary \in {diary["Bean"], <<>>}
    /\ joy_diary = diary["Joy"]
    /\ LET candidates == Candidates(DiaryKeys(bean_diary))
       IN  bean_availability \in
              SubSeqs(SubSeq(candidates, 1,
                             IF Len(candidates) < MaxSlots THEN Len(candidates)
                             ELSE MaxSlots))
    /\ joy_availability = <<>>
    /\ common_slots = <<>>
    /\ selected_slot = EmptySlot
    /\ status = "in_progress"
    /\ messages = << Msg("Fetched diaries for days", Cardinality(DOMAIN bean_diary)),
                     Msg("Mr. Bean available for slots", Len(bean_availability)) >>
    /\ joy_failed = {}
    /\ llm_asked = FALSE
    /\ attempted = {}
    /\ committed = {}
    /\ bookings = [p \in Party |-> "none"]
    /\ checked = {<<"Bean", SlotOf(c)>> : c \in Range(Candidates(DiaryKeys(bean_diary)))}
    /\ other = NoRun

WorkflowNext ==
    \/ check_joy_availability
    \/ find_common_slots
    \/ select_best_slot
    \/ book_appointments

SpecWorkflow == WorkflowInit /\ [][WorkflowNext]_vars

-----------------------------------------------------------------------------
(* Spec: the two party stores, serving any client's requests.                *)

Init == StoreInit /\ resp = NoResponse /\ OrgInit

CheckAvailability ==
    \E p \in Party, q \in Queries :
        \E call \in LLMCalls(diary[p], q) :
            check_availability(p, q, call[1], call[2]) /\ UNCHANGED orgVars

BookAppointment ==
    \E p \in Party, q \in Queries : book_appointment(p, q) /\ UNCHANGED orgVars

ResetDiary ==
    \E p \in Party : reset_diary(p) /\ UNCHANGED orgVars

GetDiary ==
    \E p \in Party : get_full_diary(p) /\ UNCHANGED orgVars

Next == CheckAvailability \/ BookAppointment \/ ResetDiary \/ GetDiary

Spec == Init /\ [][Next]_vars

-----------------------------------------------------------------------------
(* SpecRun: POST /schedule_badminton as the service runs it, from the        *)
(* initial state through the graph's entry point, while other clients reset  *)
(* the stores.                                                               *)

\* schedule_badminton up to organizer_workflow.invoke(initial_state).
schedule_badminton ==
    /\ pc \in {"idle", "returned"}
    /\ pc' = "fetch_diaries"
    /\ bean_diary' = <<>>
    /\ joy_diary' = <<>>
    /\ bean_availability' = <<>>
    /\ joy_availability' = <<>>
    /\ common_slots' = <<>>
    /\ selected_slot' = EmptySlot
    /\ messages' = <<>>
    /\ status' = "in_progress"
    /\ joy_failed' = {}
    /\ llm_asked' = FALSE
    /\ attempted' = {}
    /\ committed' = {}
    /\ bookings' = [p \in Party |-> "none"]
    /\ checked' = {}
    /\ UNCHANGED <<diary, resp, other>>

\* get_agent_diary(...).get("diary", {}): the store's diary, or {} when the
\* request raised.
get_agent_diary(net, dy) == IF net = "ok" THEN dy ELSE <<>>

\* fetch_diaries.
fetch_diaries ==
    /\ pc = "fetch_diaries"
    /\ \E net \in [Party -> Nets] :
          /\ bean_diary' = get_agent_diary(net["Bean"], diary["Bean"])
          /\ joy_diary' = get_agent_diary(net["Joy"], diary["Joy"])
    /\ messages' = Append(messages,
                      Msg("Fetched diaries for days", Cardinality(DOMAIN bean_diary')))
    /\ pc' = "check_bean"
    /\ UNCHANGED <<diary, resp, bean_availability, joy_availability, common_slots,
                   selected_slot, status, joy_failed, llm_asked, attempted, committed,
                   bookings, checked, other>>

\* state.get("bean_diary", {}).keys()[:5]: a dict_keys view is not
\* subscriptable, so the expression raises TypeError for every dict, the
\* empty one included.
FirstFiveKeys(dy) == [raises |-> TRUE, keys |-> <<>>]

\* check_bean_availability: the slice of line 148 is evaluated before any
\* query is sent; when it raises, the node leaves the state as it was and the
\* exception leaves organizer_workflow.invoke.
check_bean_availability ==
    /\ pc = "check_bean"
    /\ LET first == FirstFiveKeys(bean_diary)
       IN  IF first.raises
           THEN /\ pc' = "raised"
                /\ UNCHANGED <<bean_availability, messages, checked>>
           ELSE LET candidates == Candidates(first.keys)
                IN  \E out \in [1..Len(candidates) -> CallOutcomes] :
                       LET r(i) == check_availability_response(
                                       "Bean", diary["Bean"], SlotQuery(candidates[i]),
                                       out[i][2], <<>>)
                           available(i) == check_agent_availability(out[i][1], r(i))
                       IN  /\ bean_availability' =
                                 Kept(candidates,
                                      [i \in 1..Len(candidates) |-> available(i)])
                           /\ messages' = Append(messages,
                                 Msg("Mr. Bean available for slots",
                                     Len(bean_availability')))
                           /\ checked' = checked \cup
                                 {<<"Bean", SlotOf(c)>> : c \in Range(candidates)}
                           /\ pc' = "check_joy"
    /\ UNCHANGED <<diary, resp, bean_diary, joy_diary, joy_availability, common_slots,
                   selected_slot, status, joy_failed, llm_asked, attempted, committed,
                   bookings, other>>


schedule_badminton_except_KeepsStatus ==
    /\ pc = "raised"
    /\ messages' = <<Msg("Error occurred during scheduling process", 0)>>
    /\ pc' = "returned"
    /\ UNCHANGED <<diary, resp, bean_diary, joy_diary, bean_availability,
                   joy_availability, common_slots, selected_slot, status,
                   joy_failed, llm_asked, attempted, committed, bookings,
                   checked, other>>


schedule_badminton_except_Retries ==
    /\ pc = "raised"
    /\ pc' = "fetch_diaries"
    /\ messages' = <<>>
    /\ UNCHANGED <<diary, resp, bean_diary, joy_diary, bean_availability,
                   joy_availability, common_slots, selected_slot, status,
                   joy_failed, llm_asked, attempted, committed, bookings,
                   checked, other>>

\* schedule_badminton's "except Exception": the response carries status
\* "error" and one message.
schedule_badminton_except ==
    /\ pc = "raised"
    /\ status' = "error"
    /\ messages' = <<Msg("Error occurred during scheduling process", 0)>>
    /\ pc' = "returned"
    /\ UNCHANGED <<diary, resp, bean_diary, joy_diary, bean_availability,
                   joy_availability, common_slots, selected_slot, joy_failed, llm_asked,
                   attempted, committed, bookings, checked, other>>

\* A reset of a store by another client (the dashboard's reset buttons).
ClientReset ==
    \E p \in Party : reset_diary(p) /\ UNCHANGED orgVars

RunNext ==
    \/ schedule_badminton
    \/ fetch_diaries
    \/ check_bean_availability
    \/ schedule_badminton_except
    \/ ClientReset

SpecRun == Init /\ [][RunNext]_vars

-----------------------------------------------------------------------------
(* SpecTwoRuns: two invocations of the workflow against the same two stores, *)
(* both past find_common_slots with the same set of common slots: the first  *)
(* iterated the set in the order of the keys, the second in any order.       *)
(* Their select_best_slot and book_appointments steps interleave.            *)

\* Common slots the two runs start from.
MaxCommon == 2

\* The lists find_common_slots can leave for a set of slot keys.
CommonLists(keys) ==
    {SortByDate([i \in 1..Len(order) |-> KeySlot(order[i])]) : order \in Orders(keys)}

TwoRunsInit ==
    /\ StoreInit
    /\ resp = NoResponse
    /\ pc = "select_slot"
    /\ bean_diary = diary["Bean"]
    /\ joy_diary = diary["Joy"]
    /\ LET candidates == Candidates(DiaryKeys(bean_diary))
       IN  bean_availability \in SubSeqs(SubSeq(candidates, 1, MaxCommon))
    /\ joy_availability = bean_availability
    /\ LET keys == CommonKeys(bean_availability, joy_availability)
           in_key_order == SetToSeq(keys)
       IN  /\ common_slots =
                 SortByDate([i \in 1..Len(in_key_order) |-> KeySlot(in_key_order[i])])
           /\ \E l \in CommonLists(keys) :
                 other = [pc |-> "select_slot", common_slots |-> l,
                          selected_slot |-> EmptySlot, committed |-> {}]
    /\ selected_slot = EmptySlot
    /\ status = IF common_slots # <<>> THEN "slots_found" ELSE "no_slots"
    /\ messages = << Msg("Fetched diaries for days", Cardinality(DOMAIN bean_diary)),
                     Msg("Mr. Bean available for slots", Len(bean_availability)),
                     Msg("Mr. Joy available for slots", Len(joy_availability)),
                     Msg("Found common available slots", Len(common_slots)) >>
    /\ joy_failed = {}
    /\ llm_asked = FALSE
    /\ attempted = {}
    /\ committed = {}
    /\ bookings = [p \in Party |-> "none"]
    /\ checked = {<<p, SlotOf(c)>> : p \in Party, c \in Range(bean_availability)}

\* select_best_slot of the second run.
other_select_best_slot ==
    /\ other.pc = "select_slot"
    /\ IF other.common_slots = <<>>
       THEN other' = [other EXCEPT !.pc = "book"]
       ELSE \E answer \in LLMAnswers(Len(other.common_slots)) :
               other' = [other EXCEPT !.pc = "book",
                                      !.selected_slot = Chosen(other.common_slots, answer)]
    /\ UNCHANGED <<diary, resp, pc, bean_diary, joy_diary, bean_availability,
                   joy_availability, common_slots, selected_slot, status, messages,
                   joy_failed, llm_asked, attempted, committed, bookings, checked>>

\* book_appointments of the second run.
other_book_appointments ==
    /\ other.pc = "book"
    /\ IF ~HasSlot(other.selected_slot)
       THEN /\ other' = [other EXCEPT !.pc = "done"]
            /\ UNCHANGED diary
       ELSE \E net \in [Party -> Nets] :
               LET q == SlotQuery(other.selected_slot)
                   r(p) == book_appointment_response(p, diary[p], q)
                   bean_booking == book_agent_appointment(net["Bean"], r("Bean"))
                   calls == {"Bean"} \cup (IF CallsJoy(bean_booking) THEN {"Joy"} ELSE {})
                   handled == {p \in calls : Delivered(net[p])}
               IN  /\ diary' = [p \in Party |->
                                   IF p \in handled THEN BookedDiary(diary[p], q)
                                   ELSE diary[p]]
                   /\ other' = [other EXCEPT
                                   !.pc = "done",
                                   !.committed = {p \in handled : r(p).code = 200}]
    /\ UNCHANGED <<resp, pc, bean_diary, joy_diary, bean_availability,
                   joy_availability, common_slots, selected_slot, status, messages,
                   joy_failed, llm_asked, attempted, committed, bookings, checked>>

TwoRunsNext ==
    \/ select_best_slot
    \/ book_appointments
    \/ other_select_best_slot
    \/ other_book_appointments

SpecTwoRuns == TwoRunsInit /\ [][TwoRunsNext]_vars

-----------------------------------------------------------------------------
(* SpecIntersect: find_common_slots on any two availability lists, computed  *)
(* once with Bean's list as the first set and once with the roles of the     *)
(* parties exchanged.                                                        *)

IntersectInit ==
    /\ StoreInit
    /\ resp = NoResponse
    /\ pc = "find_common"
    /\ bean_diary = diary["Bean"]
    /\ joy_diary = diary["Joy"]
    /\ LET candidates == Candidates(DiaryKeys(bean_diary))
       IN  /\ bean_availability \in SubSeqs(SubSeq(candidates, 1, MaxSlots))
           /\ joy_availability \in SubSeqs(SubSeq(candidates, 1, MaxSlots))
    /\ common_slots = <<>>
    /\ selected_slot = EmptySlot
    /\ status = "in_progress"
    /\ messages = << Msg("Fetched diaries for days", Cardinality(DOMAIN bean_diary)),
                     Msg("Mr. Bean available for slots", Len(bean_availability)),
                     Msg("Mr. Joy available for slots", Len(joy_availability)) >>
    /\ joy_failed = {}
    /\ llm_asked = FALSE
    /\ attempted = {}
    /\ committed = {}
    /\ bookings = [p \in Party |-> "none"]
    /\ checked = {}
    /\ other = [NoRun EXCEPT !.pc = "find_common"]

\* find_common_slots with joy_availability in the place of bean_availability
\* and the reverse.
other_find_common_slots ==
    /\ other.pc = "find_common"
    /\ \E order \in Orders(CommonKeys(joy_availability, bean_availability)) :
          other' = [other EXCEPT
                       !.pc = "select_slot",
                       !.common_slots =
                           SortByDate([i \in 1..Len(order) |-> KeySlot(order[i])])]
    /\ UNCHANGED <<diary, resp, pc, bean_diary, joy_diary, bean_availability,
                   joy_availability, common_slots, selected_slot, status, messages,
                   joy_failed, llm_asked, attempted, committed, bookings, checked>>

IntersectNext ==
    \/ find_common_slots
    \/ other_find_common_slots

SpecIntersect == IntersectInit /\ [][IntersectNext]_vars

-----------------------------------------------------------------------------
(* Claims about the party stores, checked under Spec.                        *)

Appointments(p, d) == diary[p][d].appointments

StartMinutes(a) == to_minutes(Split(a.time, HYPHEN)[1])

SortedByStart(appointments) ==
    \A i \in 1..(Len(appointments) - 1) :
        StartMinutes(appointments[i]) <= StartMinutes(appointments[i + 1])

FixedOverlap(appointments, q) ==
    \E i \in 1..Len(appointments) :
        /\ appointments[i].type = "fixed"
        /\ time_overlaps(appointments[i].time, q.start_time, q.end_time)

\* C1: the availability check answers unavailable if and only if an
\* appointment of type fixed overlaps the requested window (half-open test),
\* and available otherwise.
C1_UnavailableIffFixedOverlap ==
    (resp.op = "check" /\ resp.code = 200) =>
        (resp.available <=>
            ~FixedOverlap(Appointments(resp.party, resp.query.date), resp.query))

\* C7: a successful book_appointment adds exactly one appointment, of type
\* booked and with the time start-end, to the schedule of that date and to
\* no other, and leaves that date's appointments ordered by start time.
C7_BookAddsOneBookedSorted ==
    [][\A p \in Party, q \in Queries :
         (/\ q.date \in DOMAIN diary[p]
          /\ resp'.party = p /\ resp'.query = q
          /\ book_appointment(p, q)) =>
            LET old == diary[p][q.date].appointments
                new == diary'[p][q.date].appointments
                na == new_appointment(q)
            IN  /\ resp'.code = 200
                /\ na.type = "booked"
                /\ na.time = q.start_time \o <<HYPHEN>> \o q.end_time
                /\ Len(new) = Len(old) + 1
                /\ \A a \in Range(new) \cup Range(old) :
                      Count(new, a) = Count(old, a) + (IF a = na THEN 1 ELSE 0)
                /\ SortedByStart(new)
                /\ \A p2 \in Party : DOMAIN diary'[p2] = DOMAIN diary[p2]
                /\ \A p2 \in Party : \A d \in DOMAIN diary[p2] :
                      <<p2, d>> # <<p, q.date>> => diary'[p2][d] = diary[p2][d]
      ]_vars

\* C7 witness: Bean's store has just booked 09:00-11:00 on day 0, whose
\* generated list is out of order (12:30-13:00 is inserted before 12:00-13:00).
C7_Witness ==
    /\ resp = Response("book", "Bean", 200, FALSE, Query(date_str(0), <<T(9, 0), T(11, 0)>>))
    /\ ~SortedByStart(bean_appointments(0))
    /\ Len(Appointments("Bean", date_str(0))) = Len(bean_appointments(0)) + 1

\* C8: book_appointment and check_availability for a date that is no key of
\* the party's diary answer 404 and leave the whole diary as it was; no day
\* schedule is created for the date.
C8_MissingDateIs404 ==
    [][\A p \in Party, q \in Queries :
         (q.date \notin DOMAIN diary[p] /\ resp'.party = p /\ resp'.query = q) =>
            /\ book_appointment(p, q) =>
                  (resp'.code = 404 /\ diary' = diary)
            /\ \A call \in LLMCalls(diary[p], q) :
                  check_availability(p, q, call[1], call[2]) =>
                     (resp'.code = 404 /\ ~resp'.available /\ diary' = diary)
      ]_vars

\* C8 witness: a store that holds a booking has just answered 404 to a
\* booking for the date after its horizon.
C8_Witness ==
    /\ resp.op = "book"
    /\ resp.code = 404
    /\ resp.query.date = MissingDate
    /\ MissingDate \notin DOMAIN diary[resp.party]
    /\ BookedIn(resp.party) > 0

\* C9: each party's store offers a reset, and after it the party's diary is
\* the freshly generated default, without any appointment of type booked.
C9_ResetRestoresDefault ==
    resp.op = "reset" =>
        /\ diary[resp.party] = generate_diary(resp.party, Today)
        /\ BookedIn(resp.party) = 0

\* C15: the conflicts of an answered availability check are exactly the
\* appointments of the day that overlap the requested window, whatever the
\* verdict.  The code passes on the list the language model wrote, and an
\* empty list when the call raised.
C15_ConflictsAreOverlaps ==
    (resp.op = "check" /\ resp.code = 200) =>
        Range(resp.conflicts) =
            Range(Overlapping(Appointments(resp.party, resp.query.date), resp.query))

\* C16: a step that ends with the answer of an availability check (available,
\* unavailable, 404 or checker error) leaves both calendars as they were.
C16_CheckLeavesCalendar ==
    [][resp'.op = "check" => diary' = diary]_vars

C16_Witness ==
    /\ resp.op = "check"
    /\ resp.code = 200
    /\ ~resp.available
    /\ BookedIn(resp.party) > 0

\* C17: a step changes a party's calendar only if it is that party's own
\* book_appointment or reset (asked by any client, or by a run's
\* book_appointments node); GET /diary and availability checks change none.
C17_OnlyOwnBookOrReset ==
    [][\A p \in Party :
          diary'[p] # diary[p] =>
             \/ resp'.party = p /\ resp'.op \in {"book", "reset"}
             \/ pc = "book" /\ pc' = "done" /\ p \in attempted'
             \/ other.pc = "book" /\ other'.pc = "done" /\ p \in other'.committed
      ]_vars

C17_Witness ==
    /\ resp.op = "book"
    /\ resp.party = "Bean"
    /\ resp.code = 200
    /\ BookedIn("Bean") = 1
    /\ BookedIn("Joy") = 0
    /\ \E start \in StartDays : diary["Joy"] = generate_diary("Joy", start)

-----------------------------------------------------------------------------
(* Claims about the workflow nodes, checked under SpecWorkflow.              *)

Slots(entries) == {SlotOf(e) : e \in Range(entries)}

NoDuplicates(s) == \A i, j \in 1..Len(s) : s[i] = s[j] => i = j

\* Party p's calendar holds the booked appointment for slot s.
HasBooked(p, s) ==
    /\ s.date \in DOMAIN diary[p]
    /\ new_appointment(SlotQuery(s)) \in Range(Appointments(p, s.date))

Untouched ==
    \E start \in [Party -> StartDays] :
        diary = [p \in Party |-> generate_diary(p, start[p])]

C3_BookingUnconditional ==
    pc = "done" /\ selected_slot # EmptySlot =>
        /\ attempted = Party
        /\ \A p \in committed : HasBooked(p, selected_slot)

C3_Witness ==
    /\ pc = "done"
    /\ bookings["Bean"] = "unknown"
    /\ "Bean" \notin committed
    /\ "Joy" \in committed
    /\ HasBooked("Joy", selected_slot)

C5_CommonIsIntersection ==
    pc \in {"select_slot", "book", "done"} =>
        /\ Range(common_slots) = Slots(bean_availability) \cap Slots(joy_availability)
        /\ NoDuplicates(common_slots)

C5_Witness ==
    /\ pc = "select_slot"
    /\ Len(common_slots) >= 2
    /\ Slots(joy_availability) # Slots(bean_availability)

\* The ordering of the scoring policy: date, then distance of the window's
\* midpoint from 15:00 (doubled, to stay in integers), then start time.
Before(a, b) ==
    LET dist(x) == LET twice == to_minutes(x.start_time) + to_minutes(x.end_time)
                   IN  IF twice >= 1800 THEN twice - 1800 ELSE 1800 - twice
    IN  \/ StrLess(a.date, b.date)
        \/ /\ a.date = b.date
           /\ \/ dist(a) < dist(b)
              \/ /\ dist(a) = dist(b)
                 /\ to_minutes(a.start_time) < to_minutes(b.start_time)

C10_FailedQueryNeverFree ==
    \A s \in joy_failed :
        s \notin Slots(joy_availability) /\ s \notin Range(common_slots)

C10_Witness ==
    /\ pc = "done"
    /\ common_slots # <<>>
    /\ \E s \in joy_failed :
          s.date \in DOMAIN diary["Joy"] /\ s \in Slots(bean_availability)

-----------------------------------------------------------------------------
(* Claims about a whole run of POST /schedule_badminton, checked under       *)
(* SpecRun.                                                                  *)

\* find_potential_slots: time_windows, the ten 2-hour windows from 08:00 to
\* 17:00.
time_windows == [k \in 1..10 |-> <<T(7 + k, 0), T(9 + k, 0)>>]

\* The first dates of a fetched diary that the availability loop is to cover.
FirstDates(dy) ==
    LET keys == DiaryKeys(dy)
    IN  {keys[i] : i \in 1..(IF Len(keys) < 5 THEN Len(keys) ELSE 5)}

\* The windows of the catalog that no fixed appointment of either party
\* overlaps, on the dates both calendars hold.
FreeForBoth ==
    {s \in {Slot(d, w[1], w[2]) : d \in DOMAIN diary["Bean"] \cap DOMAIN diary["Joy"],
                                  w \in Range(time_windows)} :
        \A p \in Party : ~FixedOverlap(Appointments(p, s.date), SlotQuery(s))}

\* C11: a run that has returned did not end with status "error": errors of
\* the interactions with a party are turned into per-party results and the
\* run reaches a normal terminal state.  In the code every run ends with
\* status "error".
C11_RunEndsNormally ==
    pc = "returned" => status # "error"

\* C12: a run that fetched both diaries, with a window free for both parties
\* on a date both stores hold, ends fully booked: the selected window is one
\* of the common ones and both calendars hold the booked appointment.
C12_ReachableRunBooks ==
    pc = "returned" /\ bean_diary # <<>> /\ joy_diary # <<>> /\ FreeForBoth # {} =>
        /\ status = "booked"
        /\ selected_slot \in FreeForBoth
        /\ \A p \in Party : HasBooked(p, selected_slot)

\* C13: when the run has built Bean's free-window set, every window of the
\* catalog on every one of the first dates of Bean's calendar was put to
\* Bean's availability check, and the set holds only checked windows.
C13_EveryPairChecked ==
    pc = "returned" =>
        /\ \A d \in FirstDates(bean_diary) : \A w \in Range(time_windows) :
              <<"Bean", Slot(d, w[1], w[2])>> \in checked
        /\ \A e \in Range(bean_availability) : <<"Bean", SlotOf(e)>> \in checked

-----------------------------------------------------------------------------
(* Claims about two concurrent runs, checked under SpecTwoRuns.              *)

\* The booked appointments for slot s in party p's calendar.
BookedCount(p, s) ==
    IF s.date \in DOMAIN diary[p]
    THEN Count(Appointments(p, s.date), new_appointment(SlotQuery(s)))
    ELSE 0

-----------------------------------------------------------------------------
(* Claims about the intersection, checked under SpecIntersect.               *)

\* C19: the set of common slots computed with Bean's list first and Joy's
\* second is the set computed with the two lists exchanged.
C19_IntersectionCommutes ==
    pc = "select_slot" /\ other.pc = "select_slot" =>
        Range(common_slots) = Range(other.common_slots)

C19_Witness ==
    /\ pc = "select_slot"
    /\ other.pc = "select_slot"
    /\ common_slots # <<>>
    /\ Slots(bean_availability) \ Slots(joy_availability) # {}
    /\ Slots(joy_availability) \ Slots(bean_availability) # {}


-----------------------------------------------------------------------------
(* Claims about the response of a run, checked under SpecRun.                *)

\* C21: the status a run returns is one of slots_found, no_slots, booked and
\* error; the value in_progress the run starts with is never returned.
C21_ReturnedStatus ==
    pc \in {"returned", "done"} =>
        status \in {"slots_found", "no_slots", "booked", "error"}

C21_Witness ==
    /\ pc = "returned"
    /\ status = "error"
    /\ bean_diary # <<>>
    /\ joy_diary # <<>>


-----------------------------------------------------------------------------
(* Further claims about the stores, checked under Spec.                      *)

\* A calendar as its generator made it, on some start date.
IsDefault(p) == \E start \in StartDays : diary[p] = generate_diary(p, start)

\* C22: in the default calendar of either party no appointment of any of the
\* ten days overlaps 14:00-16:00.  Joy's generator puts 13:00-15:00 and
\* 15:00-16:00 on every day.
C22_AfternoonFreeByDefault ==
    \A p \in Party : IsDefault(p) =>
        \A d \in DOMAIN diary[p] : \A a \in Range(Appointments(p, d)) :
            ~time_overlaps(a.time, T(14, 0), T(16, 0))


C27_BookedWindowStillAvailable ==
    (/\ resp.op = "check"
     /\ resp.code = 200
     /\ new_appointment(resp.query)
            \in Range(Appointments(resp.party, resp.query.date))
     /\ ~FixedOverlap(Appointments(resp.party, resp.query.date), resp.query))
        => resp.available

\* C29: in every state of a store, the generated and the reset one
\* included, the appointments of each day are in non-decreasing order of
\* their start times.  Bean's generator inserts 12:30-13:00 in front of
\* 12:00-13:00 on every third day.
C29_DaysSortedByStart ==
    \A p \in Party : \A d \in DOMAIN diary[p] :
        SortedByStart(Appointments(p, d))

-----------------------------------------------------------------------------
(* Claims about the order and the end of a run, checked under SpecRun.       *)

\* build_organizer_workflow: the entry point and the edges of the graph.
Stages == <<"fetch_diaries", "check_bean", "check_joy", "find_common",
            "select_slot", "book">>

\* The node the edge out of a stage leads to; END after the last.
NextStage(s) ==
    LET i == CHOOSE k \in 1..Len(Stages) : Stages[k] = s
    IN  IF i < Len(Stages) THEN Stages[i + 1] ELSE "done"

\* C23: a run leaves each stage for the next one of the fixed order fetch,
\* find free windows of Bean, of Joy, intersect, select, book, so that no
\* stage runs twice and intersecting follows the queries of both parties.
\* In the code the run leaves check_bean_availability by an exception.
C23_StagesInOrder ==
    [][(pc \in Range(Stages) /\ pc' # pc) => pc' = NextStage(pc)]_vars


\* A started run goes on: each node is straight-line code whose calls to a
\* party return within their timeout and whose loops are over finite lists,
\* and the exception handler of schedule_badminton returns.  Nothing makes a
\* client call /schedule_badminton or reset a diary.
SpecRunLive ==
    /\ Init
    /\ [][RunNext]_vars
    /\ WF_vars(fetch_diaries)
    /\ WF_vars(check_bean_availability)
    /\ WF_vars(schedule_badminton_except)

\* C24: every run that was started returns a response, whether the parties
\* answer or not.
C24_RunReturns ==
    (pc = "fetch_diaries") ~> (pc = "returned")

C24_Witness ==
    /\ pc = "returned"
    /\ bean_diary = <<>>
    /\ joy_diary = <<>>
    /\ messages # <<>>


-----------------------------------------------------------------------------
(* Further claims about the workflow's nodes, checked under SpecWorkflow.    *)

\* The message select_best_slot appends when it did not take the selector's
\* index.
FellBack ==
    /\ messages # <<>>
    /\ messages[Len(messages)] = Msg("Selected first available slot", 0)

\* C26: the selected slot is empty or one of common_slots, and after the
\* selection it is empty exactly when common_slots is; common_slots is in
\* the order of its dates, and when the selector's answer was not taken
\* (index out of range or negative, no integer, an exception) the selected
\* slot is the first of the list.
C26_SelectedFromCommon ==
    /\ selected_slot = EmptySlot \/ selected_slot \in Range(common_slots)
    /\ pc \in {"book", "done"} =>
          (selected_slot = EmptySlot <=> common_slots = <<>>)
    /\ \A i \in 1..(Len(common_slots) - 1) :
          ~StrLess(common_slots[i + 1].date, common_slots[i].date)
    /\ pc = "book" /\ FellBack => selected_slot = common_slots[1]

C26_Witness ==
    /\ pc = "book"
    /\ FellBack
    /\ Len(common_slots) >= 2
    /\ selected_slot = common_slots[1]
    /\ selected_slot # common_slots[Len(common_slots)]


BadmintonAt(s) ==
    [time |-> s.start_time \o <<HYPHEN>> \o s.end_time,
     activity |-> "Badminton match", type |-> "booked"]

\* C30: one pass through the graph sends each party at most one booking
\* request, for the date and the times of the selected slot, and no reset.
\* Only the step of book_appointments changes a calendar or the set of
\* parties asked, it is taken once, and it asks nobody when no slot is
\* selected; a calendar it changes belongs to a party it asked, keeps its
\* dates and every day but the selected one, and has on that day one more
\* appointment, one more than before being the booked appointment of the
\* selected slot.
C30_OneRequestPerParty ==
    [][/\ pc = "done" => pc' = "done"
       /\ (diary' # diary \/ attempted' # attempted) =>
             /\ pc = "book" /\ pc' = "done"
             /\ selected_slot # EmptySlot
             /\ \A p \in Party : diary'[p] # diary[p] =>
                   LET d == selected_slot.date
                   IN  /\ p \in attempted'
                       /\ DOMAIN diary'[p] = DOMAIN diary[p]
                       /\ d \in DOMAIN diary[p]
                       /\ \A e \in DOMAIN diary[p] \ {d} : diary'[p][e] = diary[p][e]
                       /\ Len(diary'[p][d].appointments)
                             = Len(diary[p][d].appointments) + 1
                       /\ Count(diary'[p][d].appointments, BadmintonAt(selected_slot))
                             = Count(diary[p][d].appointments,
                                     BadmintonAt(selected_slot)) + 1
      ]_vars

C30_Witness ==
    /\ pc = "done"
    /\ attempted = Party
    /\ committed = Party
    /\ \A p \in Party :
          Count(Appointments(p, selected_slot.date), BadmintonAt(selected_slot)) = 1

=============================================================================
